---- MODULE Spec2Model ----
(***************************************************************************)
(* RecipeLLM MCP server (src/mcp/main.py, src/mcp/letta_mcp.py).           *)
(*                                                                         *)
(* The model follows one server process through its entry point            *)
(* (__main__), the bootstrap coroutine setup() with its credential steps   *)
(* (load, validate, login, create-and-save), the /setup route handler      *)
(* that provisions the chef agent, and process restarts.  The recipe       *)
(* backend (Mealie), the agent platform (Letta) and the credential file    *)
(* are the environment: their state is part of the model and their         *)
(* answers to each request are chosen nondeterministically among the       *)
(* outcomes the code distinguishes.                                        *)
(***************************************************************************)
EXTENDS Integers, Sequences, FiniteSets, TLC

(***************************************************************************)
(* Bounds of the model.                                                    *)
(***************************************************************************)
\* API tokens the recipe backend issues before it only answers with errors.
MaxMints == 2
\* Longest block content handed to _set_block_limit on its own.
MaxContentLen == 5100
\* Agents the agent platform creates before agents.create only fails.
MaxAgents == 2
\* /setup requests that can be in flight in the event loop at one time.
MaxRequests == 2
\* The longest notes list a recipe is let to reach.
MaxNotes == 3
\* The most tags the backend, and a recipe, are let to hold.
MaxTags == 3
\* The most categories the backend, and the recipe, are let to hold.
MaxCategories == 3

(***************************************************************************)
(* Values.                                                                 *)
(***************************************************************************)
\* Python's None (and the absent Optional) for tokens; API tokens are 1..MaxMints.
NoToken == 0
\* The value of the MEALIE_API_KEY environment variable (docker-compose); the
\* code never reads it.  It differs from every token the backend issues.
EnvApiKey == 0 - 1
\* MealieClient not constructed yet.
NoClient == 0 - 2
\* get_auth_token's return value: None or the access_token of the session.
NoSession == 0
Session == 1
\* An access_token carried by the body of a response whose status is not
\* 2xx: the backend opened no session for it.
ForeignSession == 2
\* The empty string as a token: present in a body or file, falsy in Python.
EmptyToken == 0 - 3
\* chef_agent_id's return value when the list is empty.
NoAgent == 0

\* An HTTP exchange as the credential steps see it: the request raised
\* (kind "neterr"), or a response arrived with a status and a JSON body whose
\* token / access_token field is `token` (NoToken when the body has no such
\* field or is not JSON).  NoExchange: the request has not been sent.
NoExchange == [kind |-> "none", status |-> 0, token |-> NoToken]
NetErr == [kind |-> "neterr", status |-> 0, token |-> NoToken]
Response(status, token) == [kind |-> "response", status |-> status, token |-> token]

\* TOKEN_FILE as the code can observe it: missing, present but not parseable
\* as JSON (a truncated or partial write), or the object {"token", "token_data"}.
AbsentFile == [kind |-> "absent", token |-> NoToken]
CorruptFile == [kind |-> "corrupt", token |-> NoToken]
TokenFile(t) == [kind |-> "record", token |-> t]

\* The configuration values of a deployment: the two __main__ reads and
\* tests (main.py 333-343), the two LettaAgent._get_letta reads and passes
\* on untested (letta_mcp.py 110-111), and the fallback credential the
\* comment at main.py 189-190 refers to, which no code reads.
RequiredEnv == {"MEALIE_BASE_URL", "MEALIE_API_KEY", "LETTA_BASE_URL",
                "LETTA_TOKEN", "RECIPELLM_MCP_SERVER_URL"}

\* The variables __main__ tests before it enters setup().
CheckedEnv == {"MEALIE_BASE_URL", "RECIPELLM_MCP_SERVER_URL"}

\* A deployment sets all of them or lacks one.
EnvConfigs == {RequiredEnv} \cup {RequiredEnv \ {name} : name \in RequiredEnv}

VARIABLES
    pc,              \* position of the process: __main__ / setup() / serving
    env,             \* names of the environment variables that are set
    file,            \* contents of TOKEN_FILE
    validTokens,     \* API tokens the recipe backend currently accepts
    mintCount,       \* API tokens the recipe backend has issued so far
    mealie_api_key,  \* __main__'s variable, passed into setup()
    api_token,       \* setup()'s local
    auth_token,      \* setup()'s local
    clientKey,       \* MealieClient.api_key of the client backing the tools
    mcpServer,       \* agent platform: is "recipellm-mcp" registered
    calls,           \* requests issued by the current bootstrap, per endpoint
    validateOutcome, \* outcome of the current bootstrap's validation request
    saveOutcome,     \* outcome of the current bootstrap's save_api_token call
    loginOutcome,    \* answer to the current bootstrap's POST /api/auth/token
    createOutcome,   \* answer to the current bootstrap's POST /api/users/api-tokens
    fileAtStart,     \* TOKEN_FILE as it was when the process started
    addServerCalls,  \* add_mcp_server calls issued by all starts so far (2: two or more)
    agents,          \* agent platform: the agents, in the order it lists them
    created,         \* agent platform: agents created so far (ids are 1..created)
    catalog,         \* agent platform: tool names "recipellm-mcp" can resolve
    req,             \* the /setup requests in flight: one coroutine frame each
    response,        \* the latest completed /setup request and what it did
    mutatedSince,    \* an agent was deleted externally since that completion
    overlapped,      \* two /setup requests have been in flight at once
    block_content,   \* _set_block_limit's argument: the length of the content
    limit,           \* _set_block_limit's return value
    token_file,      \* the TOKEN_FILE a load_api_token call finds
    loaded,          \* that call's return value
    notes,           \* recipe backend: the recipe's "notes" list
    noteCall,        \* the add_recipe_note calls in flight: one frame each
    organizerTags,   \* recipe backend: the tags of /api/organizers/tags
    recipeTags,      \* recipe backend: each recipe's "tags" list
    tagRun,          \* the update_recipe_tags call in progress
    organizerCategories, \* recipe backend: /api/organizers/categories
    recipeCategory,  \* recipe backend: the recipe's "recipeCategory" list
    categoryRun,     \* the update_recipe_categories call in progress
    lastApplied      \* the latest completed call: its csv and what it left

bootVars == <<pc, env, file, validTokens, mintCount, mealie_api_key, api_token,
              auth_token, clientKey, mcpServer, calls, validateOutcome,
              saveOutcome, loginOutcome, createOutcome, fileAtStart,
              addServerCalls>>

provVars == <<agents, created, catalog, req, response, mutatedSince, overlapped>>

\* The helper functions applied on their own, to arguments of every shape.
helperVars == <<block_content, limit, token_file, loaded>>

\* The recipe tools and scripts working on one recipe of the backend.
recipeVars == <<notes, noteCall, organizerTags, recipeTags, tagRun,
                organizerCategories, recipeCategory, categoryRun, lastApplied>>

vars == <<bootVars, provVars, helperVars, recipeVars>>

Endpoints == {"load", "validate", "login", "create", "save", "list_servers", "add_server"}
NoCalls == [e \in Endpoints |-> 0]
Count(c, e) == [c EXCEPT ![e] = @ + 1]

(***************************************************************************)
(* Pure helpers of main.py.                                                *)
(***************************************************************************)
\* load_api_token (main.py 52-62): the token field when the file exists and
\* parses; None when it is missing (implicit return) or fails to parse.
load_api_token_mut(f) == f.token
load_api_token(f) ==
    CASE f.kind = "absent" -> NoToken           \* implicit return
      [] f.kind = "corrupt" -> NoToken          \* json.load raises, caught
      [] f.kind = "not_object" -> NoToken       \* data.get raises, caught
      [] f.kind = "no_token_field" -> NoToken   \* data.get("token") is None
      [] f.kind = "record" -> f.token

\* Every shape of TOKEN_FILE load_api_token can meet: besides the three
\* above, a JSON object without a token field, a JSON value that is not an
\* object (the bare string of a token), and an object whose token is "".
NoFieldFile == [kind |-> "no_token_field", token |-> NoToken]
BareTokenFile(t) == [kind |-> "not_object", token |-> t]
FileShapes ==
    {AbsentFile, CorruptFile, NoFieldFile, TokenFile(EmptyToken)}
        \cup {TokenFile(t) : t \in 1..MaxMints}
        \cup {BareTokenFile(t) : t \in 1..MaxMints}
\* load_api_token has not returned yet.
NotLoaded == 0 - 4

\* validate_api_token (main.py 64-80): true only for HTTP 200.
validate_api_token_mut(outcome) == outcome # "200"
validate_api_token(outcome) == outcome = "200"

\* Python truthiness of an Optional[str] token: `if api_token:`.
Truthy(t) == t \notin {NoToken, EmptyToken}

\* setup() line 165: `if api_token:` decides whether to validate.
HasCandidate_mut(t) == TRUE
HasCandidate(t) == Truthy(t)

\* setup() line 172: `if not api_token:` decides whether to mint.
NeedsMint_mut(t) == TRUE
NeedsMint(t) == ~Truthy(t)

\* setup() lines 185-190: the key handed to MealieClient.
SelectKey(tok, key) == IF Truthy(tok) THEN tok ELSE key

\* Outcomes of GET /api/users/self the code distinguishes: 200, any other
\* status, or an exception from the transport.  The backend answers 200 only
\* for a token it accepts; it may answer another status (5xx) or drop the
\* connection for any token.
ValidateOutcomes(t) == (IF t \in validTokens THEN {"200"} ELSE {}) \cup {"non200", "neterr"}

(***************************************************************************)
(* letta_mcp.py: constants and pure helpers of LettaAgent.                 *)
(***************************************************************************)
CHEF_AGENT_NAME == "chef-agent"
DEFAULT_LETTA_MODEL == "letta/letta-free"

\* What client.models.list() can answer: the handles of the platform's
\* models, with or without the configured one.
ModelLists == {{DEFAULT_LETTA_MODEL, "openai/gpt-4o-mini"}, {"openai/gpt-4o-mini"}, {}}

\* create_chef_agent's requested_tools (letta_mcp.py 137-141), in order.
RequestedTools == <<"find_recipes_in_mealie", "add_recipe_to_mealie_from_url",
                    "get_recipe_in_mealie">>
ToolNames == {RequestedTools[i] : i \in 1..Len(RequestedTools)}

\* The tool names the "recipellm-mcp" source can resolve, fixed for a
\* deployment: all of the requested ones, all but the second, only the
\* third, or none.
Catalogs == {ToolNames, ToolNames \ {RequestedTools[2]}, {RequestedTools[3]}, {}}

Requests == 1..MaxRequests

\* Calls one /setup request has issued to the agent platform.
PlatformCalls == {"list_agents", "add_mcp_tool", "list_models", "create_agent"}
NoPlatformCalls == [c \in PlatformCalls |-> 0]

\* The frame of setup_route (main.py 318-326) and of the LettaAgent methods
\* it awaits: where it is suspended, chef_agent_id, the tools resolved so far.
\* clean: no other request was in flight and no agent was deleted externally
\* since this request arrived.
IdleRequest == [pc |-> "idle", chef_agent_id |-> NoAgent, idx |-> 0,
                found_tools |-> <<>>, available_model_names |-> {},
                calls |-> NoPlatformCalls, clean |-> TRUE]

\* What a completed request did: the HTTP status, the id it logged, the
\* exception that ended it, the model handles it was given, its calls.
NoResponse == [status |-> "none", chef_agent_id |-> NoAgent, error |-> "none",
               available_model_names |-> {}, calls |-> NoPlatformCalls,
               clean |-> FALSE]

InFlight(r) == req[r].pc # "idle"

\* client.agents.list(name=CHEF_AGENT_NAME): the platform's agents with that name.
AgentsNamed(name) == SelectSeq(agents, LAMBDA a : a.name = name)

\* LettaAgent.chef_agent_id (letta_mcp.py 124-129).
chef_agent_id_mut(listed) == NoAgent
chef_agent_id(listed) == IF Len(listed) = 0 THEN NoAgent ELSE listed[1].id

\* setup_route line 322: `if not chef_agent_id:` decides whether to create.
ShouldCreate_mut(id) == TRUE
ShouldCreate(id) == id = NoAgent

\* len(CHEF_PERSONA) (letta_mcp.py 28-107) and len("") for the human block.
CHEF_PERSONA_LEN == 3309
HUMAN_BLOCK_LEN == 0

\* block_content is None; _set_block_limit has not returned yet.
NoneContent == 0 - 1
NoLimit == 0 - 1
ContentLengths == {NoneContent} \cup 0..MaxContentLen

\* LettaAgent._set_block_limit (letta_mcp.py 260-265), on the length of the
\* content.
set_block_limit_mut(n) == IF n = NoneContent THEN 5000 ELSE n
set_block_limit(n) ==
    IF n = NoneContent THEN 5000
    ELSE IF n < 5000 THEN 5000
    ELSE n + 1000

\* _create_agent lines 202-213: the CreateBlock for a label and a content.
CreateBlock(label, n) == [label |-> label, len |-> n, limit |-> set_block_limit(n)]

\* _find_tool (letta_mcp.py 267-275): what tools.add_mcp_tool answers for a
\* name when it does not raise: the tool (its id is its name here) when the
\* "recipellm-mcp" source resolves the name, None otherwise.
NoTool == "None"
ResolveTool(name) == IF name \in catalog THEN name ELSE NoTool

\* _find_tools_id lines 281-284: `if tool is not None:` append, else warn.
AppendFound_mut(found_tools, tool) == Append(found_tools, tool)
AppendFound(found_tools, tool) ==
    IF tool # NoTool THEN Append(found_tools, tool) ELSE found_tools

\* _create_agent line 215: the first call it awaits is _find_tools_id, before
\* models.list at line 216.
FirstAwaited_mut == "list_models"
FirstAwaited == "find_tools"

\* _find_tools_id line 279: `for tool_name in requested_tools` moves on to
\* the next name after each iteration.
NextIndex_mut(idx) == idx
NextIndex(idx) == idx + 1

\* _create_agent lines 217-223: the model must be among the available handles.
ModelAccepted_mut(letta_model, available_model_names) == TRUE
ModelAccepted(letta_model, available_model_names) ==
    letta_model \in available_model_names

(***************************************************************************)
(* Initial state: a fresh deployment.  No credential file, no token issued *)
(* by the backend, nothing registered on the agent platform, the process   *)
(* about to run __main__.                                                  *)
(***************************************************************************)
FreshDeployment(e, c) ==
    /\ pc = "main"
    /\ env = e
    /\ file = AbsentFile
    /\ validTokens = {}
    /\ mintCount = 0
    /\ mealie_api_key = NoToken
    /\ api_token = NoToken
    /\ auth_token = NoSession
    /\ clientKey = NoClient
    /\ mcpServer = FALSE
    /\ calls = NoCalls
    /\ validateOutcome = "none"
    /\ saveOutcome = "none"
    /\ loginOutcome = NoExchange
    /\ createOutcome = NoExchange
    /\ fileAtStart = AbsentFile
    /\ addServerCalls = 0
    /\ agents = <<>>
    /\ created = 0
    /\ catalog = c
    /\ req = [r \in Requests |-> IdleRequest]
    /\ response = NoResponse
    /\ mutatedSince = FALSE
    /\ overlapped = FALSE

(***************************************************************************)
(* Text, as the scripts handle it: a string is the sequence of its         *)
(* characters.                                                             *)
(***************************************************************************)
\* The characters of the class [a-zA-Z0-9] that occur in the inputs.
AlphaNumeric == {"a", "b", "A", "B"}
Whitespace == {" "}

\* str.lower() on one character.
LowerChar(c) == CASE c = "A" -> "a" [] c = "B" -> "b" [] OTHER -> c
lower(text) == [i \in 1..Len(text) |-> LowerChar(text[i])]

\* str.strip(): drop leading and trailing whitespace.
RECURSIVE lstrip(_)
lstrip(text) ==
    IF text # <<>> /\ Head(text) \in Whitespace THEN lstrip(Tail(text)) ELSE text
RECURSIVE rstrip(_)
rstrip(text) ==
    IF text # <<>> /\ text[Len(text)] \in Whitespace
    THEN rstrip(SubSeq(text, 1, Len(text) - 1)) ELSE text
strip(text) == rstrip(lstrip(text))

\* str.split(sep): the pieces between the separators, in order.
RECURSIVE split(_, _)
split(text, sep) ==
    IF \E i \in 1..Len(text) : text[i] = sep
    THEN LET i == CHOOSE k \in 1..Len(text) :
                      text[k] = sep /\ \A j \in 1..(k - 1) : text[j] # sep
         IN  <<SubSeq(text, 1, i - 1)>> \o split(SubSeq(text, i + 1, Len(text)), sep)
    ELSE <<text>>

\* re.sub(r'[^a-zA-Z0-9]+', repl, text): every maximal run of characters
\* outside the class becomes one repl.
RECURSIVE SkipRun(_)
SkipRun(text) ==
    IF text # <<>> /\ Head(text) \notin AlphaNumeric THEN SkipRun(Tail(text)) ELSE text
RECURSIVE re_sub(_, _)
re_sub(repl, text) ==
    IF text = <<>> THEN <<>>
    ELSE IF Head(text) \in AlphaNumeric
         THEN <<Head(text)>> \o re_sub(repl, Tail(text))
         ELSE <<repl>> \o re_sub(repl, SkipRun(text))

\* update_recipe_tags.py 24-26.
snake_case(text) == lower(re_sub("_", text))

\* The recipes of the backend the scripts are run on.
RecipeSlugs == {"soup", "stew"}

\* The tags_csv arguments: "a", "B", "a b", "a_b", "a, B".
TagsCsvs == { <<"a">>, <<"B">>, <<"a", " ", "b">>, <<"a", "_", "b">>,
              <<"a", ",", " ", "B">> }

\* No update_recipe_tags call is running.
IdleTagRun == [pc |-> "idle", recipe_slug |-> "", tags |-> <<>>, creates |-> 0]

\* A tag as POST /api/organizers/tags answers it (update_recipe_tags.py
\* 73-78): the backend keeps the name it was sent.
Tag(id, name) == [id |-> id, name |-> name]

\* update_recipe_categories.py 27-28.
to_slug(text) == lower(re_sub("-", strip(text)))

\* The categories_csv arguments: "a", "B", "a,a", "a, B", "B!".
CategoriesCsvs == { <<"a">>, <<"B">>, <<"a", ",", "a">>,
                    <<"a", ",", " ", "B">>, <<"B", "!">> }

\* A category as POST /api/organizers/categories answers it
\* (update_recipe_categories.py 74-80).
Category(name, slug) == [name |-> name, slug |-> slug]

\* find_category_by_name's None.
NoCategory == Category(<<"None">>, <<"None">>)

\* The slug is the backend's work, the script reads it from the answer.  The
\* backend may form it as the script does, or leave no hyphen at the ends.
RECURSIVE TrimHyphens(_)
TrimHyphens(slug) ==
    IF slug # <<>> /\ Head(slug) = "-" THEN TrimHyphens(Tail(slug))
    ELSE IF slug # <<>> /\ slug[Len(slug)] = "-"
         THEN TrimHyphens(SubSeq(slug, 1, Len(slug) - 1))
         ELSE slug
BackendSlugs(name) == {to_slug(name), TrimHyphens(to_slug(name))}

\* No update_recipe_categories call is running.
IdleCategoryRun ==
    [pc |-> "idle", categories_csv |-> <<>>, categories_names |-> <<>>,
     categories |-> <<>>, recipe_categories |-> <<>>, creates |-> 0]

\* No call has completed yet.
NotApplied == [categories_csv |-> <<"None">>, recipe_categories |-> <<>>]

\* The clients that call add_recipe_note on the recipe.
Callers == {"first", "second"}

\* The notes a call may add: new_note is {"title": ..., "text": ...}.
NoteTitles == {"substitution", "timing"}
NoteTexts == {"chef summary"}
Notes == [title : NoteTitles, text : NoteTexts]
NoNote == [title |-> "", text |-> ""]

\* The frame of an add_recipe_note call: where it is, the notes list its GET
\* returned, and its new_note.
IdleCall == [pc |-> "idle", notes |-> <<>>, new_note |-> NoNote]

\* The body of add_recipe_note's PATCH: notes.append(new_note).
PatchBody_mut(read, new_note) == <<new_note>>
PatchBody(read, new_note) == Append(read, new_note)

\* No tool call or script run against the recipe has started.
NoRecipeTraffic ==
    /\ notes = <<>>
    /\ noteCall = [c \in Callers |-> IdleCall]
    /\ organizerTags = <<>>
    /\ recipeTags = [r \in RecipeSlugs |-> <<>>]
    /\ tagRun = IdleTagRun
    /\ organizerCategories = <<>>
    /\ recipeCategory = <<>>
    /\ categoryRun = IdleCategoryRun
    /\ lastApplied = NotApplied

Init ==
    /\ \E e \in EnvConfigs, c \in Catalogs : FreshDeployment(e, c)
    /\ block_content = NoneContent
    /\ limit = NoLimit
    /\ token_file = AbsentFile
    /\ loaded = NotLoaded
    /\ NoRecipeTraffic

(***************************************************************************)
(* __main__ (main.py 329-347): read the environment, load the token file   *)
(* into mealie_api_key, exit(1) when a required variable is missing,       *)
(* otherwise enter setup().                                                *)
(***************************************************************************)
main ==
    /\ pc = "main"
    /\ mealie_api_key' = load_api_token(file)
    /\ calls' = Count(calls, "load")
    /\ pc' = IF CheckedEnv \subseteq env
             THEN "setup_mcp_server" ELSE "exited"
    /\ UNCHANGED <<env, file, validTokens, mintCount, api_token, auth_token,
                   clientKey, mcpServer, validateOutcome, saveOutcome,
                   loginOutcome, createOutcome, fileAtStart, addServerCalls>>
    /\ UNCHANGED provVars
    /\ UNCHANGED <<helperVars, recipeVars>>

(***************************************************************************)
(* setup() lines 157-159 with LettaAgent.setup_mcp_server (letta_mcp.py    *)
(* 287-297): list the tool sources; return the registered one, otherwise   *)
(* add it.  Either platform call may raise; setup() logs and re-raises     *)
(* (305-307) and __main__ exits with status 1 (354-356).                   *)
(***************************************************************************)
\* setup_mcp_server lines 288-290: `if server:` on the listed entry named
\* "recipellm-mcp" decides whether the registration is returned as it is.
AlreadyRegistered_mut(listed) == FALSE
AlreadyRegistered(listed) == listed

setup_mcp_server ==
    /\ pc = "setup_mcp_server"
    /\ \/ \* tools.list_mcp_servers raises
          /\ calls' = Count(calls, "list_servers")
          /\ pc' = "exited"
          /\ UNCHANGED <<mcpServer, addServerCalls>>
       \/ \* the source is already registered
          /\ AlreadyRegistered(mcpServer)
          /\ calls' = Count(calls, "list_servers")
          /\ pc' = "load"
          /\ UNCHANGED <<mcpServer, addServerCalls>>
       \/ \* not registered: tools.add_mcp_server succeeds or raises
          /\ ~AlreadyRegistered(mcpServer)
          /\ calls' = Count(Count(calls, "list_servers"), "add_server")
          /\ addServerCalls' = IF addServerCalls < 2 THEN addServerCalls + 1 ELSE 2
          /\ \E added \in BOOLEAN :
                /\ mcpServer' = (mcpServer \/ added)
                /\ pc' = IF added THEN "load" ELSE "exited"
    /\ UNCHANGED <<env, file, validTokens, mintCount, mealie_api_key, api_token,
                   auth_token, clientKey, validateOutcome, saveOutcome,
                   loginOutcome, createOutcome, fileAtStart>>
    /\ UNCHANGED provVars
    /\ UNCHANGED <<helperVars, recipeVars>>

(***************************************************************************)
(* setup() lines 161-165: api_token = load_api_token(); a truthy token is  *)
(* validated next, otherwise the mint starts.                              *)
(***************************************************************************)
setup_load ==
    /\ pc = "load"
    /\ api_token' = load_api_token(file)
    /\ calls' = Count(calls, "load")
    /\ pc' = IF HasCandidate(api_token') THEN "validate" ELSE "login"
    /\ UNCHANGED <<env, file, validTokens, mintCount, mealie_api_key, auth_token,
                   clientKey, mcpServer, validateOutcome, saveOutcome,
                   loginOutcome, createOutcome, fileAtStart, addServerCalls>>
    /\ UNCHANGED provVars
    /\ UNCHANGED <<helperVars, recipeVars>>

(***************************************************************************)
(* setup() lines 165-172 and 181-182: await validate_api_token; on false   *)
(* api_token = None.  `if not api_token` then selects the mint.            *)
(***************************************************************************)
setup_validate ==
    /\ pc = "validate"
    /\ \E outcome \in ValidateOutcomes(api_token) :
          /\ validateOutcome' = outcome
          /\ api_token' = IF validate_api_token(outcome) THEN api_token ELSE NoToken
    /\ calls' = Count(calls, "validate")
    /\ pc' = IF NeedsMint(api_token') THEN "login" ELSE "finalize"
    /\ UNCHANGED <<env, file, validTokens, mintCount, mealie_api_key, auth_token,
                   clientKey, mcpServer, saveOutcome, loginOutcome, createOutcome,
                   fileAtStart, addServerCalls>>
    /\ UNCHANGED provVars
    /\ UNCHANGED <<helperVars, recipeVars>>

(***************************************************************************)
(* get_auth_token (main.py 82-99) called from setup() 174-176: POST        *)
(* /api/auth/token; the access_token of the body, or None when the         *)
(* request raises or the body has no access_token.                         *)
(***************************************************************************)
\* Answers to POST /api/auth/token: a 200 with or without access_token in the
\* body, an error status with or without access_token in the body, or the
\* request raises.
LoginResponses ==
    {Response(200, Session), Response(200, NoSession),
     Response(401, NoSession), Response(401, ForeignSession), NetErr}

\* get_auth_token lines 84-99: response.json()["access_token"] is returned
\* whatever the status code; an exception (the request, a body that is not
\* JSON, KeyError for a missing field) is caught and None returned.
AccessTokenOf(resp) == IF resp.kind = "response" THEN resp.token ELSE NoSession

get_auth_token ==
    /\ pc = "login"
    /\ \E resp \in LoginResponses :
          /\ loginOutcome' = resp
          /\ auth_token' = AccessTokenOf(resp)
    /\ calls' = Count(calls, "login")
    /\ pc' = "create"
    /\ UNCHANGED <<env, file, validTokens, mintCount, mealie_api_key, api_token,
                   clientKey, mcpServer, validateOutcome, saveOutcome,
                   createOutcome, fileAtStart, addServerCalls>>
    /\ UNCHANGED provVars
    /\ UNCHANGED <<helperVars, recipeVars>>

(***************************************************************************)
(* save_api_token (main.py 39-50): makedirs, open(TOKEN_FILE, 'w'),        *)
(* json.dump.  The result is the new file: the whole record on success;    *)
(* the old file when makedirs or open raises; a truncated, unparseable     *)
(* file when the write raises after open has truncated it.  The exception  *)
(* is caught and logged in every case.                                     *)
(***************************************************************************)
SaveOutcomes == {"ok", "fail_before_open", "fail_after_open"}

save_api_token_mut(f, token, outcome) == f
save_api_token(f, token, outcome) ==
    CASE outcome = "ok" -> TokenFile(token)
      [] outcome = "fail_before_open" -> f
      [] outcome = "fail_after_open" -> CorruptFile

(***************************************************************************)
(* Outcomes of POST /api/users/api-tokens.  The endpoint is authenticated: *)
(* the backend issues a token (201) only to a bearer that is a session     *)
(* credential it handed out; "Bearer None" is answered with an error       *)
(* status.  To such a bearer it answers 201 with the new token, 201 with a *)
(* body that lacks the token or holds an empty one, or 200 with the new    *)
(* token; the request may raise.                                           *)
(***************************************************************************)
CreateOutcomes(auth) ==
    (IF auth = Session /\ mintCount < MaxMints
     THEN {Response(201, mintCount + 1), Response(200, mintCount + 1),
           Response(201, NoToken), Response(201, EmptyToken)}
     ELSE {})
        \cup {Response(401, NoToken), NetErr}

\* The backend issued the token carried by this answer.
Issued(resp) == resp.kind = "response" /\ resp.token \in 1..(mintCount + 1)

\* create_mealie_api_token lines 119-137: the body's token when the status is
\* 201 and the token is truthy; None for a falsy token, any other status, or
\* an exception.
CreatedTokenOf_mut(resp) ==
    IF resp.kind = "response" /\ Truthy(resp.token) THEN resp.token ELSE NoToken
CreatedTokenOf(resp) ==
    IF resp.kind = "response" /\ resp.status = 201 /\ Truthy(resp.token)
    THEN resp.token ELSE NoToken

(***************************************************************************)
(* create_mealie_api_token (main.py 101-137) called from setup() 177-180   *)
(* with whatever get_auth_token returned: the request is sent, and on 201  *)
(* with a token the token is saved and returned; otherwise None.           *)
(***************************************************************************)
create_mealie_api_token ==
    /\ pc = "create"
    /\ \E resp \in CreateOutcomes(auth_token) :
          /\ createOutcome' = resp
          /\ mintCount' = IF Issued(resp) THEN mintCount + 1 ELSE mintCount
          /\ validTokens' = IF Issued(resp) THEN validTokens \cup {resp.token}
                            ELSE validTokens
          /\ api_token' = CreatedTokenOf(resp)
          /\ IF Truthy(CreatedTokenOf(resp))
             THEN \E saved \in SaveOutcomes :
                     /\ file' = save_api_token(file, CreatedTokenOf(resp), saved)
                     /\ saveOutcome' = saved
                     /\ calls' = Count(Count(calls, "create"), "save")
             ELSE /\ calls' = Count(calls, "create")
                  /\ UNCHANGED <<file, saveOutcome>>
    /\ pc' = "finalize"
    /\ UNCHANGED <<env, mealie_api_key, auth_token, clientKey, mcpServer,
                   validateOutcome, loginOutcome, fileAtStart, addServerCalls>>
    /\ UNCHANGED provVars
    /\ UNCHANGED <<helperVars, recipeVars>>

(***************************************************************************)
(* setup() lines 184-303: choose the key, construct MealieClient with it   *)
(* and register the tool functions; setup() returns.                       *)
(***************************************************************************)
setup_finalize ==
    /\ pc = "finalize"
    /\ mealie_api_key' = SelectKey(api_token, mealie_api_key)
    /\ clientKey' = mealie_api_key'
    /\ pc' = "setup_done"
    /\ UNCHANGED <<env, file, validTokens, mintCount, api_token, auth_token,
                   mcpServer, calls, validateOutcome, saveOutcome,
                   loginOutcome, createOutcome, fileAtStart, addServerCalls>>
    /\ UNCHANGED provVars
    /\ UNCHANGED <<helperVars, recipeVars>>

\* The terminal state of the credential bootstrap, read off setup()'s locals
\* when it returns (main.py 181-190).
Terminal ==
    IF ~Truthy(api_token) THEN "Degraded"
    ELSE IF calls["create"] = 0 THEN "ValidCandidate" ELSE "ValidNew"

(***************************************************************************)
(* __main__ lines 349-350: mcp.run starts the HTTP server.  setup()'s      *)
(* frame is gone; only the registered tools and their client remain.       *)
(***************************************************************************)
run_server ==
    /\ pc = "setup_done"
    /\ pc' = "serving"
    /\ api_token' = NoToken
    /\ auth_token' = NoSession
    /\ mealie_api_key' = NoToken
    /\ calls' = NoCalls
    /\ validateOutcome' = "none"
    /\ saveOutcome' = "none"
    /\ loginOutcome' = NoExchange
    /\ createOutcome' = NoExchange
    /\ fileAtStart' = file
    /\ UNCHANGED addServerCalls
    /\ UNCHANGED <<env, file, validTokens, mintCount, clientKey, mcpServer>>
    /\ UNCHANGED provVars
    /\ UNCHANGED <<helperVars, recipeVars>>

(***************************************************************************)
(* The process is started again (container restart) after it served or     *)
(* exited: all in-process state is lost, the file and the two external     *)
(* systems keep theirs.                                                    *)
(***************************************************************************)
Restart ==
    /\ pc \in {"serving", "exited"}
    /\ pc' = "main"
    /\ api_token' = NoToken
    /\ auth_token' = NoSession
    /\ mealie_api_key' = NoToken
    /\ clientKey' = NoClient
    /\ calls' = NoCalls
    /\ validateOutcome' = "none"
    /\ saveOutcome' = "none"
    /\ loginOutcome' = NoExchange
    /\ createOutcome' = NoExchange
    /\ fileAtStart' = file
    /\ UNCHANGED addServerCalls
    /\ UNCHANGED <<env, file, validTokens, mintCount, mcpServer>>
    /\ req' = [r \in Requests |-> IdleRequest]
    /\ UNCHANGED <<agents, created, catalog, response, mutatedSince, overlapped>>
    /\ UNCHANGED <<helperVars, recipeVars>>

(***************************************************************************)
(* The recipe backend stops accepting a token it issued (revoked by an     *)
(* administrator, or its database reset).                                  *)
(***************************************************************************)
Revoke ==
    /\ \E t \in validTokens : validTokens' = validTokens \ {t}
    /\ UNCHANGED <<pc, env, file, mintCount, mealie_api_key, api_token, auth_token,
                   clientKey, mcpServer, calls, validateOutcome, saveOutcome,
                   loginOutcome, createOutcome, fileAtStart, addServerCalls>>
    /\ UNCHANGED provVars
    /\ UNCHANGED <<helperVars, recipeVars>>

(***************************************************************************)
(* The /setup route (main.py 317-326).  Each request runs setup_route as   *)
(* its own coroutine; every awaited platform call is a suspension point    *)
(* at which the other requests can run.  An exception out of the handler   *)
(* is not caught in main.py: the framework answers 500.                    *)
(***************************************************************************)
\* The handler returns (or raises): its frame is dropped and the response sent.
Complete(r, status, id, error, cs) ==
    /\ req' = [req EXCEPT ![r] = IdleRequest]
    /\ response' = [status |-> status, chef_agent_id |-> id, error |-> error,
                    available_model_names |-> req[r].available_model_names,
                    calls |-> cs, clean |-> req[r].clean]
    /\ mutatedSince' = FALSE

\* A POST /setup arrives while the server runs; the handler is entered and
\* suspends in `await letta_agent.chef_agent_id()`.
EnterHandler(r) ==
    /\ pc = "serving"
    /\ ~InFlight(r)
    /\ LET busy == \E o \in Requests : o # r /\ InFlight(o) IN
       /\ req' = [o \in Requests |->
                    IF o = r THEN [IdleRequest EXCEPT !.pc = "chef_agent_id",
                                                     !.clean = ~busy]
                    ELSE IF InFlight(o) THEN [req[o] EXCEPT !.clean = FALSE]
                    ELSE req[o]]
       /\ overlapped' = (overlapped \/ busy)
    /\ UNCHANGED <<agents, created, catalog, response, mutatedSince>>
    /\ UNCHANGED <<helperVars, recipeVars>>

\* setup_route (main.py 317-326) constructs a LettaAgent and nothing else:
\* it does not touch the MealieClient, the tools or the credential file.
setup_route_mut(r) ==
    /\ EnterHandler(r)
    /\ clientKey' = load_api_token(file)
    /\ UNCHANGED <<pc, env, file, validTokens, mintCount, mealie_api_key, api_token,
                   auth_token, mcpServer, calls, validateOutcome, saveOutcome,
                   loginOutcome, createOutcome, fileAtStart, addServerCalls>>
setup_route(r) ==
    /\ EnterHandler(r)
    /\ UNCHANGED bootVars

\* LettaAgent.chef_agent_id (letta_mcp.py 124-129) answers, and setup_route
\* lines 321-326 branch on it: return OK with the id found, or go on to
\* create_chef_agent.  agents.list may raise.
await_chef_agent_id(r) ==
    /\ req[r].pc = "chef_agent_id"
    /\ LET cs == [req[r].calls EXCEPT !["list_agents"] = @ + 1] IN
       \/ /\ Complete(r, "500", NoAgent, "list_agents_failed", cs)
          /\ UNCHANGED <<agents, created, catalog, overlapped>>
       \/ LET id == chef_agent_id(AgentsNamed(CHEF_AGENT_NAME)) IN
          IF ShouldCreate(id)
          THEN /\ req' = [req EXCEPT ![r].pc = FirstAwaited, ![r].calls = cs,
                                     ![r].chef_agent_id = id, ![r].idx = 1]
               /\ UNCHANGED <<agents, created, catalog, response, mutatedSince,
                              overlapped>>
          ELSE /\ Complete(r, "OK", id, "none", cs)
               /\ UNCHANGED <<agents, created, catalog, overlapped>>
    /\ UNCHANGED bootVars
    /\ UNCHANGED <<helperVars, recipeVars>>

\* _find_tools_id (letta_mcp.py 277-285), one iteration: await _find_tool
\* for the next requested name.  The platform returns the tool (its id is
\* its name here) when it can resolve the name, None otherwise, or raises.
\* After the last name _create_agent awaits models.list (line 216).
find_tool(r) ==
    /\ req[r].pc = "find_tools"
    /\ LET name == RequestedTools[req[r].idx]
           cs == [req[r].calls EXCEPT !["add_mcp_tool"] = @ + 1]
           found == AppendFound(req[r].found_tools, ResolveTool(name))
       IN
       \/ /\ Complete(r, "500", NoAgent, "add_mcp_tool_failed", cs)
          /\ UNCHANGED <<agents, created, catalog, overlapped>>
       \/ /\ req' = [req EXCEPT ![r].found_tools = found, ![r].calls = cs,
                                 ![r].idx = NextIndex(@),
                                 ![r].pc = IF req[r].idx = Len(RequestedTools)
                                           THEN "list_models" ELSE "find_tools"]
          /\ UNCHANGED <<agents, created, catalog, response, mutatedSince,
                         overlapped>>
    /\ UNCHANGED bootVars
    /\ UNCHANGED <<helperVars, recipeVars>>

\* _create_agent lines 216-223: models.list answers (or raises); the
\* configured model is among the handles or ValueError is raised.
list_models(r) ==
    /\ req[r].pc = "list_models"
    /\ LET cs == [req[r].calls EXCEPT !["list_models"] = @ + 1] IN
       \/ /\ Complete(r, "500", NoAgent, "list_models_failed", cs)
          /\ UNCHANGED <<agents, created, catalog, overlapped>>
       \/ \E names \in ModelLists :
            IF ModelAccepted(DEFAULT_LETTA_MODEL, names)
            THEN /\ req' = [req EXCEPT ![r].pc = "create_agent", ![r].calls = cs,
                                       ![r].available_model_names = names]
                 /\ UNCHANGED <<agents, created, catalog, response, mutatedSince,
                                overlapped>>
            ELSE /\ req' = [req EXCEPT ![r] = IdleRequest]
                 /\ response' = [status |-> "500", chef_agent_id |-> NoAgent,
                                 error |-> "ValueError",
                                 available_model_names |-> names,
                                 calls |-> cs, clean |-> req[r].clean]
                 /\ mutatedSince' = FALSE
                 /\ UNCHANGED <<agents, created, catalog, overlapped>>
    /\ UNCHANGED bootVars
    /\ UNCHANGED <<helperVars, recipeVars>>

\* _create_agent lines 239-258 and setup_route 323-326: agents.create is
\* issued.  The platform adds the agent (names are not unique keys on the
\* platform) and the handler returns OK, or the call raises.
create_agent(r) ==
    /\ req[r].pc = "create_agent"
    /\ LET cs == [req[r].calls EXCEPT !["create_agent"] = @ + 1] IN
       \/ /\ Complete(r, "500", NoAgent, "create_agent_failed", cs)
          /\ UNCHANGED <<agents, created, catalog, overlapped>>
       \/ /\ created < MaxAgents
          /\ created' = created + 1
          /\ agents' = Append(agents,
                [id |-> created + 1, name |-> CHEF_AGENT_NAME,
                 memory_blocks |-> <<CreateBlock("human", HUMAN_BLOCK_LEN),
                                     CreateBlock("persona", CHEF_PERSONA_LEN)>>,
                 tool_ids |-> req[r].found_tools])
          /\ Complete(r, "OK", created + 1, "none", cs)
          /\ UNCHANGED <<catalog, overlapped>>
    /\ UNCHANGED bootVars
    /\ UNCHANGED <<helperVars, recipeVars>>

(***************************************************************************)
(* An agent is deleted on the platform by someone else (an external        *)
(* mutation of the platform's state).                                      *)
(***************************************************************************)
DeleteAgent ==
    /\ \E i \in 1..Len(agents) :
          agents' = SubSeq(agents, 1, i - 1) \o SubSeq(agents, i + 1, Len(agents))
    /\ mutatedSince' = TRUE
    /\ req' = [r \in Requests |-> [req[r] EXCEPT !.clean = ~InFlight(r)]]
    /\ UNCHANGED <<created, catalog, response, overlapped>>
    /\ UNCHANGED bootVars
    /\ UNCHANGED <<helperVars, recipeVars>>

Provisioner ==
    \E r \in Requests :
        \/ setup_route(r)
        \/ await_chef_agent_id(r)
        \/ find_tool(r)
        \/ list_models(r)
        \/ create_agent(r)

Bootstrap ==
    \/ main
    \/ setup_mcp_server
    \/ setup_load
    \/ setup_validate
    \/ get_auth_token
    \/ create_mealie_api_token
    \/ setup_finalize
    \/ run_server

\* The whole program and its environment.
Next ==
    \/ Bootstrap
    \/ Restart
    \/ Revoke
    \/ Provisioner
    \/ DeleteAgent

Spec == Init /\ [][Next]_vars

\* Process lifetimes in which no /setup request arrives: the bootstrap, the
\* recipe backend and restarts.
NextBootstrap ==
    \/ Bootstrap
    \/ Restart
    \/ Revoke

SpecBootstrap == Init /\ [][NextBootstrap]_vars

\* The first process lifetime of a deployment with /setup traffic: the
\* bootstrap (which finds no credential file, so it never validates), then
\* the route handlers against the agent platform.
FirstBootstrap ==
    \/ main
    \/ setup_mcp_server
    \/ setup_load
    \/ get_auth_token
    \/ create_mealie_api_token
    \/ setup_finalize
    \/ run_server

NextProvision ==
    \/ FirstBootstrap
    \/ Provisioner
    \/ DeleteAgent

\* Deployments in which the variables __main__ does not test are set: no
\* step of the bootstrap or of the provisioner depends on them.
InitProvision == Init /\ (RequiredEnv \ CheckedEnv) \subseteq env

SpecProvision == InitProvision /\ [][NextProvision]_vars

\* The whole program with /setup requests arriving one at a time: every
\* bootstrap step, restarts, the backend revoking tokens, and one request
\* frame.
SerialProvisioner ==
    \/ setup_route(1)
    \/ await_chef_agent_id(1)
    \/ find_tool(1)
    \/ list_models(1)
    \/ create_agent(1)

NextSerial ==
    \/ Bootstrap
    \/ Restart
    \/ Revoke
    \/ SerialProvisioner
    \/ DeleteAgent

SpecSerial == InitProvision /\ [][NextSerial]_vars

(***************************************************************************)
(* The helper functions on their own: _set_block_limit is handed a content *)
(* of any length (or None) and load_api_token finds a TOKEN_FILE of any    *)
(* shape; each is called once.                                             *)
(***************************************************************************)
InitHelpers ==
    /\ FreshDeployment(RequiredEnv, ToolNames)
    /\ block_content \in ContentLengths
    /\ limit = NoLimit
    /\ token_file \in FileShapes
    /\ loaded = NotLoaded
    /\ NoRecipeTraffic

call_set_block_limit ==
    /\ limit = NoLimit
    /\ limit' = set_block_limit(block_content)
    /\ UNCHANGED <<block_content, token_file, loaded>>
    /\ UNCHANGED <<bootVars, provVars, recipeVars>>

call_load_api_token ==
    /\ loaded = NotLoaded
    /\ loaded' = load_api_token(token_file)
    /\ UNCHANGED <<block_content, limit, token_file>>
    /\ UNCHANGED <<bootVars, provVars, recipeVars>>

NextHelpers ==
    \/ call_set_block_limit
    \/ call_load_api_token

SpecHelpers == InitHelpers /\ [][NextHelpers]_vars

(***************************************************************************)
(* MealieClient.add_recipe_note (mealie_client.py 184-215), which the tool *)
(* add_recipe_note_to_mealie calls: GET the recipe, append new_note to the *)
(* notes of the answer, PATCH the recipe with that list.  Each request is  *)
(* one step; raise_for_status ends the call on an error answer.            *)
(***************************************************************************)
add_recipe_note_get(c) ==
    /\ noteCall[c].pc = "idle"
    /\ Len(notes) < MaxNotes
    /\ \E new_note \in Notes :
          \/ noteCall' = [noteCall EXCEPT ![c] =
                 [pc |-> "got", notes |-> notes, new_note |-> new_note]]
          \/ noteCall' = [noteCall EXCEPT ![c] =
                 [pc |-> "failed", notes |-> <<>>, new_note |-> new_note]]
    /\ UNCHANGED notes
    /\ UNCHANGED <<organizerTags, recipeTags, tagRun>>
    /\ UNCHANGED <<organizerCategories, recipeCategory, categoryRun, lastApplied>>
    /\ UNCHANGED <<bootVars, provVars, helperVars>>

add_recipe_note_patch(c) ==
    /\ noteCall[c].pc = "got"
    /\ \/ /\ notes' = PatchBody(noteCall[c].notes, noteCall[c].new_note)
          /\ noteCall' = [noteCall EXCEPT ![c].pc = "done", ![c].notes = notes']
       \/ /\ noteCall' = [noteCall EXCEPT ![c].pc = "failed"]
          /\ UNCHANGED notes
    /\ UNCHANGED <<organizerTags, recipeTags, tagRun>>
    /\ UNCHANGED <<organizerCategories, recipeCategory, categoryRun, lastApplied>>
    /\ UNCHANGED <<bootVars, provVars, helperVars>>

\* The caller takes the answer (or the exception) and may call again.
add_recipe_note_return(c) ==
    /\ noteCall[c].pc \in {"done", "failed"}
    /\ noteCall' = [noteCall EXCEPT ![c] = IdleCall]
    /\ UNCHANGED notes
    /\ UNCHANGED <<organizerTags, recipeTags, tagRun>>
    /\ UNCHANGED <<organizerCategories, recipeCategory, categoryRun, lastApplied>>
    /\ UNCHANGED <<bootVars, provVars, helperVars>>

NextNotes ==
    \/ \E c \in Callers : add_recipe_note_get(c)
    \/ \E c \in Callers : add_recipe_note_patch(c)
    \/ \E c \in Callers : add_recipe_note_return(c)

InitNotes ==
    /\ FreshDeployment(RequiredEnv, ToolNames)
    /\ block_content = NoneContent
    /\ limit = NoLimit
    /\ token_file = AbsentFile
    /\ loaded = NotLoaded
    /\ NoRecipeTraffic

SpecNotes == InitNotes /\ [][NextNotes]_vars

(***************************************************************************)
(* scripts/update_recipe_tags.py: split tags_csv and call                  *)
(* add_tag_to_recipe(recipe_slug, tag.strip()) for each piece (243-248).   *)
(* One step per add_tag_to_recipe call; raise_for_status ends the run on   *)
(* an error answer.                                                        *)
(***************************************************************************)
update_recipe_tags(recipe_slug, tags_csv) ==
    /\ tagRun.pc = "idle"
    /\ Len(organizerTags) + Len(split(tags_csv, ",")) <= MaxTags
    /\ Len(recipeTags[recipe_slug]) + Len(split(tags_csv, ",")) <= MaxTags
    /\ tagRun' = [pc |-> "running", recipe_slug |-> recipe_slug,
                  tags |-> split(tags_csv, ","), creates |-> 0]
    /\ UNCHANGED <<organizerTags, recipeTags, notes, noteCall>>
    /\ UNCHANGED <<organizerCategories, recipeCategory, categoryRun, lastApplied>>
    /\ UNCHANGED <<bootVars, provVars, helperVars>>

\* add_tag_to_recipe's early return (172-175): the recipe has a tag of
\* that name.
OnRecipe(tags, new_tag_name) == \E i \in 1..Len(tags) : tags[i].name = new_tag_name

\* get_or_create_tag's loop (149-152): the tags it accepts as the requested
\* one.
Matches(all_tags, tag_name) ==
    {i \in 1..Len(all_tags) : all_tags[i].name = snake_case(tag_name)}

FirstMatch(all_tags, tag_name) ==
    all_tags[CHOOSE i \in Matches(all_tags, tag_name) :
                 \A j \in Matches(all_tags, tag_name) : i <= j]

\* PATCH /api/recipes/{slug} with the tags the GET returned and new_tag.
set_recipe_tags(new_tag) ==
    \/ /\ recipeTags' = [recipeTags EXCEPT ![tagRun.recipe_slug] = Append(@, new_tag)]
       /\ tagRun' = [tagRun EXCEPT !.tags = Tail(@)]
    \/ /\ tagRun' = [tagRun EXCEPT !.pc = "failed"]
       /\ UNCHANGED recipeTags

add_tag_to_recipe ==
    /\ tagRun.pc = "running"
    /\ tagRun.tags # <<>>
    /\ LET new_tag_name == strip(Head(tagRun.tags))
           tags == recipeTags[tagRun.recipe_slug]
       IN  IF OnRecipe(tags, new_tag_name)
           THEN /\ tagRun' = [tagRun EXCEPT !.tags = Tail(@)]
                /\ UNCHANGED <<organizerTags, recipeTags>>
           ELSE IF Matches(organizerTags, new_tag_name) # {}
           THEN /\ set_recipe_tags(FirstMatch(organizerTags, new_tag_name))
                /\ UNCHANGED organizerTags
           ELSE \* create_tag: the backend stores the tag or answers an error
                \/ /\ organizerTags' = Append(organizerTags,
                                           Tag(Len(organizerTags) + 1, new_tag_name))
                   /\ \/ /\ recipeTags' = [recipeTags EXCEPT ![tagRun.recipe_slug] =
                                              Append(@, organizerTags'[Len(organizerTags')])]
                         /\ tagRun' = [tagRun EXCEPT !.tags = Tail(@),
                                                     !.creates = @ + 1]
                      \/ /\ tagRun' = [tagRun EXCEPT !.pc = "failed",
                                                     !.creates = @ + 1]
                         /\ UNCHANGED recipeTags
                \/ /\ tagRun' = [tagRun EXCEPT !.pc = "failed", !.creates = @ + 1]
                   /\ UNCHANGED <<organizerTags, recipeTags>>
    /\ UNCHANGED <<notes, noteCall>>
    /\ UNCHANGED <<organizerCategories, recipeCategory, categoryRun, lastApplied>>
    /\ UNCHANGED <<bootVars, provVars, helperVars>>

\* The loop is over (or an exception left it): the call returns.
update_recipe_tags_return ==
    /\ \/ tagRun.pc = "running" /\ tagRun.tags = <<>>
       \/ tagRun.pc = "failed"
    /\ tagRun' = IdleTagRun
    /\ UNCHANGED <<organizerTags, recipeTags, notes, noteCall>>
    /\ UNCHANGED <<organizerCategories, recipeCategory, categoryRun, lastApplied>>
    /\ UNCHANGED <<bootVars, provVars, helperVars>>

NextTags ==
    \/ \E r \in RecipeSlugs, csv \in TagsCsvs : update_recipe_tags(r, csv)
    \/ add_tag_to_recipe
    \/ update_recipe_tags_return

SpecTags == InitNotes /\ [][NextTags]_vars

(***************************************************************************)
(* scripts/update_recipe_categories.py 160-179: split categories_csv, GET  *)
(* the backend's categories and the recipe's, walk the names (skip, reuse  *)
(* or create), PATCH the recipe.  One step per loop pass; raise_for_status *)
(* ends the run on an error answer.                                        *)
(***************************************************************************)
update_recipe_categories(categories_csv) ==
    /\ categoryRun.pc = "idle"
    /\ Len(organizerCategories) + Len(split(categories_csv, ",")) <= MaxCategories
    /\ Len(recipeCategory) + Len(split(categories_csv, ",")) <= MaxCategories
    /\ \/ categoryRun' =
             [pc |-> "running", categories_csv |-> categories_csv,
              categories_names |-> split(categories_csv, ","),
              categories |-> organizerCategories,
              recipe_categories |-> recipeCategory, creates |-> 0]
       \/ categoryRun' = [IdleCategoryRun EXCEPT !.pc = "failed",
                                                 !.categories_csv = categories_csv]
    /\ lastApplied' = IF lastApplied.categories_csv = categories_csv
                      THEN lastApplied ELSE NotApplied
    /\ UNCHANGED <<organizerCategories, recipeCategory>>
    /\ UNCHANGED <<notes, noteCall, organizerTags, recipeTags, tagRun>>
    /\ UNCHANGED <<bootVars, provVars, helperVars>>

\* update_recipe_categories.py 82-103.
SlugMatches(categories, category_name) ==
    {i \in 1..Len(categories) : categories[i].slug = to_slug(category_name)}

find_category_by_name(categories, category_name) ==
    IF SlugMatches(categories, category_name) = {} THEN NoCategory
    ELSE categories[CHOOSE i \in SlugMatches(categories, category_name) :
                        \A j \in SlugMatches(categories, category_name) : i <= j]

\* One pass of the loop (163-176).
update_recipe_categories_loop ==
    /\ categoryRun.pc = "running"
    /\ categoryRun.categories_names # <<>>
    /\ LET category_name == Head(categoryRun.categories_names)
           existing_category ==
               find_category_by_name(categoryRun.categories, category_name)
       IN  IF find_category_by_name(categoryRun.recipe_categories, category_name)
                  # NoCategory
           THEN /\ categoryRun' = [categoryRun EXCEPT !.categories_names = Tail(@)]
                /\ UNCHANGED organizerCategories
           ELSE IF existing_category # NoCategory
           THEN /\ categoryRun' =
                      [categoryRun EXCEPT !.categories_names = Tail(@),
                          !.recipe_categories = Append(@, existing_category)]
                /\ UNCHANGED organizerCategories
           ELSE \* create_category: the backend stores it or answers an error
                \/ \E slug \in BackendSlugs(category_name) :
                      /\ organizerCategories' =
                            Append(organizerCategories, Category(category_name, slug))
                      /\ categoryRun' =
                            [categoryRun EXCEPT !.categories_names = Tail(@),
                                !.recipe_categories =
                                    Append(@, Category(category_name, slug)),
                                !.creates = @ + 1]
                \/ /\ categoryRun' = [categoryRun EXCEPT !.pc = "failed",
                                                          !.creates = @ + 1]
                   /\ UNCHANGED organizerCategories
    /\ UNCHANGED <<recipeCategory, lastApplied>>
    /\ UNCHANGED <<notes, noteCall, organizerTags, recipeTags, tagRun>>
    /\ UNCHANGED <<bootVars, provVars, helperVars>>

\* set_recipe_categories(recipe_slug, recipe_categories) (178, 105-134).
set_recipe_categories ==
    /\ categoryRun.pc = "running"
    /\ categoryRun.categories_names = <<>>
    /\ \/ /\ recipeCategory' = categoryRun.recipe_categories
          /\ categoryRun' = [categoryRun EXCEPT !.pc = "done"]
          /\ lastApplied' = [categories_csv |-> categoryRun.categories_csv,
                             recipe_categories |-> categoryRun.recipe_categories]
       \/ /\ categoryRun' = [categoryRun EXCEPT !.pc = "failed"]
          /\ UNCHANGED <<recipeCategory, lastApplied>>
    /\ UNCHANGED organizerCategories
    /\ UNCHANGED <<notes, noteCall, organizerTags, recipeTags, tagRun>>
    /\ UNCHANGED <<bootVars, provVars, helperVars>>

update_recipe_categories_return ==
    /\ categoryRun.pc \in {"done", "failed"}
    /\ categoryRun' = IdleCategoryRun
    /\ UNCHANGED <<organizerCategories, recipeCategory, lastApplied>>
    /\ UNCHANGED <<notes, noteCall, organizerTags, recipeTags, tagRun>>
    /\ UNCHANGED <<bootVars, provVars, helperVars>>

NextCategories ==
    \/ \E csv \in CategoriesCsvs : update_recipe_categories(csv)
    \/ update_recipe_categories_loop
    \/ set_recipe_categories
    \/ update_recipe_categories_return

SpecCategories == InitNotes /\ [][NextCategories]_vars

(***************************************************************************)
(* Properties of the credential bootstrap (checked under SpecBootstrap).   *)
(***************************************************************************)
\* The stored credential is one the recipe backend would accept right now.
StoredAccepted == file.kind = "record" /\ file.token \in validTokens

\* This step sends a login or credential-creation request or changes the file.
MintsOrOverwrites ==
    \/ calls'["login"] > calls["login"]
    \/ calls'["create"] > calls["create"]
    \/ file' # file

\* C1: when setup()'s load returned a token and its validation returned true,
\* the bootstrap sends no login and no credential-creation request, never
\* calls save, leaves the file as it was, and hands exactly the loaded token
\* to MealieClient.
C1_ValidCandidateUntouched ==
    validateOutcome = "200" =>
        /\ calls["login"] = 0 /\ calls["create"] = 0 /\ calls["save"] = 0
        /\ file = fileAtStart
        /\ Truthy(api_token) /\ api_token = load_api_token(fileAtStart)
        /\ (pc = "setup_done" => clientKey = api_token)

C1_Witness ==
    /\ pc = "setup_done" /\ validateOutcome = "200"
    /\ calls["validate"] = 1 /\ clientKey = load_api_token(file)

\* What the bootstrap saw: no stored credential, or one that failed validation.
AbsentOrInvalid ==
    \/ load_api_token(fileAtStart) = NoToken
    \/ validateOutcome \in {"non200", "neterr"}

\* C2 as claimed: when the stored credential is absent or fails validation,
\* the finished bootstrap has sent exactly one login and one creation request,
\* and whenever the mint succeeded the file holds the minted token.
C2_Original ==
    (pc = "setup_done" /\ AbsentOrInvalid) =>
        /\ calls["login"] = 1 /\ calls["create"] = 1
        /\ (Truthy(api_token) => file = TokenFile(api_token))

\* C2 as amended: exactly one login and one creation request; when the mint
\* succeeded save_api_token ran once, and the file holds the minted token
\* provided the write did not fail.  When the write fails the minted token is
\* still the bootstrap's credential and the file is the old one or truncated.
C2_OneMintFileReflectsUnlessWriteFails ==
    (pc = "setup_done" /\ AbsentOrInvalid) =>
        /\ calls["login"] = 1 /\ calls["create"] = 1
        /\ Truthy(api_token) =>
              /\ calls["save"] = 1
              /\ clientKey = api_token
              /\ saveOutcome = "ok" => file = TokenFile(api_token)
              /\ saveOutcome = "fail_before_open" => file = fileAtStart
              /\ saveOutcome = "fail_after_open" => file = CorruptFile

C2_Witness ==
    /\ pc = "setup_done" /\ validateOutcome = "non200"
    /\ Truthy(api_token) /\ saveOutcome = "ok"
    /\ file = TokenFile(api_token) /\ file # fileAtStart

\* C3 as claimed: while the backend would accept the stored token, no step
\* sends a login or creation request or changes the credential file.
C3_Original == [][StoredAccepted => ~MintsOrOverwrites]_vars

\* C3 as amended: a step that mints or overwrites while the backend would
\* accept the stored token happens only in a bootstrap whose validation
\* request failed (network error or non-200 status); a bootstrap whose
\* validation returned 200 never mints or overwrites.
C3_LostOnlyAfterFailedValidation ==
    [][(MintsOrOverwrites =>
            /\ validateOutcome # "200"
            /\ StoredAccepted => validateOutcome \in {"non200", "neterr"})]_vars

C3_Witness ==
    /\ pc = "setup_done" /\ validateOutcome = "neterr"
    /\ fileAtStart.kind = "record" /\ fileAtStart.token \in validTokens
    /\ Truthy(api_token) /\ file = TokenFile(api_token) /\ file # fileAtStart

\* C4 as claimed: when the mint fails the bootstrap ends degraded and the
\* credential given to MealieClient is the one from the environment.
C4_DegradedUsesEnvironmentKey ==
    (pc = "setup_done" /\ Terminal = "Degraded") => clientKey = EnvApiKey

\* C5: when the credential file is absent at startup the validation endpoint
\* is never called; if the login then fails, no save happens, the file stays
\* absent and the bootstrap ends degraded.
C5_AbsentFileLoginFails ==
    fileAtStart = AbsentFile =>
        /\ calls["validate"] = 0
        /\ (calls["login"] = 1 /\ auth_token = NoSession) =>
              /\ calls["save"] = 0
              /\ file = AbsentFile
              /\ pc = "setup_done" => Terminal = "Degraded"

C5_Witness ==
    /\ pc = "setup_done" /\ fileAtStart = AbsentFile
    /\ calls["login"] = 1 /\ auth_token = NoSession /\ calls["create"] = 1
    /\ Terminal = "Degraded" /\ file = AbsentFile

\* C6 as claimed: the credential-creation request is sent only after login
\* returned a session credential.
C6_CreateOnlyAfterLogin == calls["create"] > 0 => auth_token = Session

\* C16: the step that sends the identity-check request sends exactly one,
\* never ends setup(), and treats the token as valid exactly when the answer
\* was HTTP 200: then the token is kept and no mint follows; for another
\* status or a network failure the token is dropped and the login follows.
C16_ValidTrueOnlyFor200 ==
    [][calls'["validate"] > calls["validate"] =>
        /\ calls["validate"] = 0 /\ calls'["validate"] = 1
        /\ pc' \in {"login", "finalize"}
        /\ validateOutcome' = "200" <=> (api_token' = api_token /\ pc' = "finalize")
        /\ validateOutcome' \in {"non200", "neterr"} <=>
               (api_token' = NoToken /\ pc' = "login")]_vars

C16_Witness ==
    /\ pc = "login" /\ validateOutcome = "non200" /\ calls["validate"] = 1
    /\ api_token = NoToken /\ Truthy(load_api_token(fileAtStart))

\* C17 as claimed: the login step returns a session credential exactly when
\* the answer was a 2xx response carrying access_token, and None for a
\* network error, a non-2xx status or a body without access_token.
C17_LoginAbsentUnlessSuccess ==
    calls["login"] = 1 =>
        (auth_token # NoSession <=>
            /\ loginOutcome.kind = "response"
            /\ loginOutcome.status \in 200..299
            /\ loginOutcome.token # NoSession)

\* C18: once the credential-creation request was sent, the step has returned
\* a credential exactly when the answer was status 201 with a non-empty
\* token, and then it is that token; otherwise it returned None, save was
\* not called and the credential file is as the process found it.
C18_CreatedOnlyFor201WithToken ==
    (calls["create"] = 1 /\ pc \in {"finalize", "setup_done"}) =>
        /\ Truthy(api_token) <=>
              /\ createOutcome.kind = "response"
              /\ createOutcome.status = 201
              /\ createOutcome.token \notin {NoToken, EmptyToken}
        /\ Truthy(api_token) => api_token = createOutcome.token
        /\ ~Truthy(api_token) =>
              /\ api_token = NoToken
              /\ calls["save"] = 0
              /\ file = fileAtStart

C18_Witness ==
    /\ pc = "setup_done" /\ calls["create"] = 1
    /\ createOutcome = Response(200, 1) /\ 1 \in validTokens
    /\ api_token = NoToken /\ file = AbsentFile

\* C20: once save_api_token was called, setup() goes on with the minted
\* token in memory and hands it to MealieClient; after a successful save the
\* file is exactly the record of the new token (token_data is the body that
\* carried it), and after a failed one it is the old file or a truncated one.
C20_SaveReplacesAndNeverRaises ==
    calls["save"] = 1 =>
        /\ pc \in {"finalize", "setup_done"}
        /\ Truthy(api_token) /\ api_token = createOutcome.token
        /\ saveOutcome = "ok" => file = TokenFile(api_token)
        /\ saveOutcome # "ok" => file \in {fileAtStart, CorruptFile}
        /\ pc = "setup_done" => (clientKey = api_token /\ Terminal # "Degraded")

C20_Witness ==
    /\ pc = "setup_done" /\ calls["save"] = 1 /\ saveOutcome = "fail_after_open"
    /\ fileAtStart.kind = "record" /\ file = CorruptFile
    /\ Truthy(api_token) /\ clientKey = api_token

\* C21 as claimed: in every state the credential file is absent or a
\* complete record whose token is non-empty and was issued by the backend.
C21_FileAbsentOrCompleteRecord ==
    \/ file = AbsentFile
    \/ /\ file.kind = "record"
       /\ Truthy(file.token)
       /\ file.token \in 1..mintCount

\* C22 as claimed: a deployment that lacks one of the required configuration
\* values never gets past the entry point: no step of setup() runs.
C22_MissingConfigurationIsFatal ==
    ~(RequiredEnv \subseteq env) =>
        /\ pc \in {"main", "exited"}
        /\ calls["list_servers"] = 0 /\ calls["login"] = 0

\* C25 as claimed: over all starts of the process the add-server call is
\* issued at most once.
C25_Original == addServerCalls <= 1

\* C25 as amended: a start that finds the source registered issues no add
\* call, a start issues at most one, and the registration stays; so once an
\* add call has succeeded no later start issues another.  (An add call that
\* raises registers nothing and ends the start; the next start issues it
\* again.)
C25_NoAddOnceRegistered ==
    [][/\ mcpServer => (mcpServer' /\ calls'["add_server"] <= calls["add_server"]
                         /\ addServerCalls' = addServerCalls)
       /\ calls'["add_server"] <= 1
       /\ calls'["add_server"] > calls["add_server"] =>
              (mcpServer' <=> pc' = "load")]_vars

C25_Witness ==
    /\ pc = "load" /\ mcpServer /\ calls["list_servers"] = 1
    /\ calls["add_server"] = 0 /\ addServerCalls = 1 /\ mintCount = 1

\* The credential steps of setup() in program order, and their successor.
CredentialSteps == <<"load", "validate", "login", "create", "finalize", "setup_done">>
Rank(p) == CHOOSE i \in 1..Len(CredentialSteps) : CredentialSteps[i] = p
InCredentialSteps(p) == \E i \in 1..(Len(CredentialSteps) - 1) : CredentialSteps[i] = p

\* C27: a bootstrap that has entered the credential steps can always take
\* its next step, every step moves it forward in program order and none ends
\* the process, so it reaches the end of setup(); there the tools and their
\* client exist and the outcome is Valid(candidate) exactly when validation
\* answered 200, Valid(new) exactly when the creation step returned a token,
\* and Degraded otherwise.
C27_BootstrapTerminates ==
    /\ [](InCredentialSteps(pc) => ENABLED Bootstrap)
    /\ [](pc = "setup_done" =>
            /\ clientKey # NoClient
            /\ Terminal = "ValidCandidate" <=> validateOutcome = "200"
            /\ Terminal = "ValidNew" <=> Truthy(CreatedTokenOf(createOutcome))
            /\ Terminal = "Degraded" <=>
                   (validateOutcome # "200" /\ ~Truthy(CreatedTokenOf(createOutcome))))
    /\ [][(InCredentialSteps(pc) /\ pc' # pc) =>
            \E i \in 1..Len(CredentialSteps) :
                CredentialSteps[i] = pc' /\ i > Rank(pc)]_vars

C27_Witness ==
    /\ pc = "setup_done" /\ Terminal = "Degraded" /\ clientKey # NoClient
    /\ validateOutcome = "neterr" /\ loginOutcome = NetErr /\ createOutcome = NetErr

\* C28 as claimed: one process start reads the credential file at most
\* once, counting the entry point and setup() together.
C28_FileReadAtMostOnce == calls["load"] <= 1

\* C29 as claimed: whatever the agent platform answers at startup, the
\* credential steps still run: a start that has called the platform has not
\* exited but is in, or through, its credential steps.
C29_CredentialStepsSurvivePlatformFailure ==
    calls["list_servers"] = 1 =>
        (InCredentialSteps(pc) \/ pc = "setup_done")

\* C31: a bootstrap whose stored credential failed validation and whose mint
\* returned no token leaves the file as the process found it and never
\* called save; and every step that changes the file is a save_api_token
\* call made after a 201 answer that carried a non-empty token.
C31_FileChangesOnlyThroughSave ==
    /\ []((pc \in {"finalize", "setup_done"}
              /\ validateOutcome \in {"non200", "neterr"} /\ ~Truthy(api_token)) =>
            (file = fileAtStart /\ calls["save"] = 0))
    /\ [][file' # file =>
            /\ calls'["save"] = calls["save"] + 1
            /\ createOutcome'.kind = "response" /\ createOutcome'.status = 201
            /\ createOutcome'.token \notin {NoToken, EmptyToken}]_vars

C31_Witness ==
    /\ pc = "setup_done" /\ validateOutcome = "non200" /\ Terminal = "Degraded"
    /\ calls["login"] = 1 /\ calls["create"] = 1
    /\ file.kind = "record" /\ file = fileAtStart

\* C32 as claimed: when setup() has returned, in any of its terminal states,
\* the credential held by the MealieClient behind the tools is a non-empty
\* string.
C32_ClientCredentialNonEmpty ==
    pc = "setup_done" => Truthy(clientKey)

(***************************************************************************)
(* Properties of the agent provisioner (checked under SpecProvision).      *)
(***************************************************************************)
\* Request r returns in this step (a restart drops it without a response).
Returns(r) == InFlight(r) /\ ~InFlight(r)' /\ pc' = "serving"

\* C7: a request that ran alone, with no external deletion, and answered OK
\* issued one create call when the platform listed no chef agent and none
\* when it listed one; and when the previous request also ran that way and
\* answered OK, with no deletion since, this one returns the same id and
\* issues no create call.
C7_ProvisionerIdempotent ==
    [][\A r \in Requests :
        (Returns(r) /\ req[r].clean /\ response'.status = "OK") =>
            /\ response'.calls["create_agent"] =
                   (IF Len(AgentsNamed(CHEF_AGENT_NAME)) = 0 THEN 1 ELSE 0)
            /\ (response.status = "OK" /\ response.clean /\ ~mutatedSince) =>
                  /\ response'.chef_agent_id = response.chef_agent_id
                  /\ response'.calls["create_agent"] = 0]_vars

C7_Witness ==
    /\ response.status = "OK" /\ response.clean /\ ~mutatedSince /\ ~overlapped
    /\ response.calls["create_agent"] = 0
    /\ created = 1 /\ Len(agents) = 1 /\ response.chef_agent_id = agents[1].id

\* C8: as long as no two /setup requests were ever in flight together, the
\* platform holds at most one agent named chef-agent.
C8_AtMostOneChefAgent ==
    ~overlapped => Len(AgentsNamed(CHEF_AGENT_NAME)) <= 1

C8_Witness ==
    /\ ~overlapped /\ created = MaxAgents /\ Len(AgentsNamed(CHEF_AGENT_NAME)) = 1
    /\ response.status = "OK" /\ response.calls["create_agent"] = 0

\* C9: a request goes on to create on the strength of its own lookup alone:
\* every request suspended between its lookup and its create call saw no
\* agent, whatever the platform holds by now.  (The witness is the state
\* the claim says is reachable: two agents named chef-agent.)
C9_CreateRestsOnOwnLookup ==
    \A r \in Requests :
        req[r].pc \in {"find_tools", "list_models", "create_agent"} =>
            req[r].chef_agent_id = NoAgent

C9_Witness ==
    /\ Len(AgentsNamed(CHEF_AGENT_NAME)) = 2
    /\ \A r \in Requests : ~InFlight(r)
    /\ response.status = "OK" /\ response.calls["create_agent"] = 1

\* C10: a request whose model list lacks the configured model ends with
\* ValueError without issuing agents.create, and no request reaches the
\* create call with a model list that lacks it.
C10_ModelUnavailable ==
    /\ \A r \in Requests :
          req[r].pc = "create_agent" =>
              DEFAULT_LETTA_MODEL \in req[r].available_model_names
    /\ (response.calls["list_models"] = 1 /\ response.error # "list_models_failed"
          /\ DEFAULT_LETTA_MODEL \notin response.available_model_names) =>
              /\ response.error = "ValueError"
              /\ response.status = "500"
              /\ response.calls["create_agent"] = 0
              /\ response.chef_agent_id = NoAgent

C10_Witness ==
    /\ response.error = "ValueError" /\ response.calls["create_agent"] = 0
    /\ response.available_model_names = {"openai/gpt-4o-mini"}

\* The requested tools the "recipellm-mcp" source resolves among the first
\* n requested names, in request order.
ResolvableAmong(n) ==
    SelectSeq(SubSeq(RequestedTools, 1, n), LAMBDA name : name \in catalog)

\* C11: a requested name the platform answers None for is skipped and the
\* request goes on: while a request resolves tools it holds exactly the
\* resolvable ones among the names handled so far, it arrives at the model
\* check and the create call with exactly the resolvable requested tools,
\* and every agent is created with exactly those identifiers.
C11_UnresolvableToolSkipped ==
    /\ \A r \in Requests :
          /\ req[r].pc = "find_tools" =>
                req[r].found_tools = ResolvableAmong(req[r].idx - 1)
          /\ req[r].pc \in {"list_models", "create_agent"} =>
                req[r].found_tools = ResolvableAmong(Len(RequestedTools))
    /\ \A i \in 1..Len(agents) :
          agents[i].tool_ids = ResolvableAmong(Len(RequestedTools))

C11_Witness ==
    /\ catalog = ToolNames \ {RequestedTools[2]}
    /\ response.status = "OK" /\ response.calls["create_agent"] = 1
    /\ response.calls["add_mcp_tool"] = Len(RequestedTools)
    /\ Len(agents) = 1
    /\ agents[1].tool_ids = <<RequestedTools[1], RequestedTools[3]>>

\* C12: every completed /setup request was answered OK, whatever became of
\* its provisioning (lookup failure, model unavailable, create failure).
C12_SetupAlwaysAnswersOK ==
    response.status \in {"none", "OK"}

\* C13: once startup has completed and the server is serving, with no /setup
\* request received, an agent named chef-agent exists on the platform.
C13_StartupProvisionsAgent ==
    pc = "serving" => Len(AgentsNamed(CHEF_AGENT_NAME)) >= 1

(***************************************************************************)
(* Properties of the helper functions.                                     *)
(***************************************************************************)
\* C14 as claimed: for a content of length n, _set_block_limit returns the
\* larger of 5000 and n + 1000.
C14_LimitIsMaxOfFloorAndMargin ==
    (limit # NoLimit /\ block_content # NoneContent) =>
        limit = (IF block_content + 1000 > 5000 THEN block_content + 1000 ELSE 5000)

\* C34: for every content, and for None, the value _set_block_limit returns
\* is at least 5000 and at least the length of the content.
C34_LimitCoversFloorAndContent ==
    limit # NoLimit =>
        /\ limit >= 5000
        /\ block_content # NoneContent => limit >= block_content

C34_Witness ==
    block_content = 5000 /\ limit = 6000

\* C15: every memory block of every agent the provisioner created has a
\* limit at least 1000 above the length of its content.
C15_CreatedBlocksHaveMargin ==
    \A i \in 1..Len(agents) :
        \A k \in 1..Len(agents[i].memory_blocks) :
            agents[i].memory_blocks[k].limit - agents[i].memory_blocks[k].len >= 1000

C15_Witness ==
    /\ Len(agents) >= 1
    /\ agents[1].memory_blocks[1] = [label |-> "human", len |-> 0, limit |-> 5000]
    /\ agents[1].memory_blocks[2] =
           [label |-> "persona", len |-> CHEF_PERSONA_LEN, limit |-> 5000]

\* C19: load_api_token always returns: the stored token when the file exists
\* and parses to an object with a token field, and None when the file is
\* missing, does not parse, or holds no token field.
C19_LoadNeverRaises ==
    loaded # NotLoaded =>
        /\ token_file.kind = "record" => loaded = token_file.token
        /\ token_file.kind \in {"absent", "corrupt", "no_token_field", "not_object"}
              => loaded = NoToken

C19_Witness ==
    token_file = TokenFile(1) /\ loaded = 1

\* Request r's agents.list call is answered in this step (it did not raise).
LookupAnswered(r) ==
    /\ req[r].pc = "chef_agent_id" /\ req'[r].pc # "chef_agent_id"
    /\ pc' = "serving"
    /\ ~(Returns(r) /\ response'.status = "500")

\* C26: when the lookup is answered with an existing chef agent, the request
\* returns in that very step with that agent's id, having issued the lookup
\* and no other platform call (no tool resolution, no model list, no create),
\* and the platform's agents are as they were.
C26_FoundIssuesNoFurtherCall ==
    [][\A r \in Requests :
        (LookupAnswered(r) /\ Len(AgentsNamed(CHEF_AGENT_NAME)) > 0) =>
            /\ Returns(r)
            /\ response'.status = "OK"
            /\ response'.chef_agent_id = AgentsNamed(CHEF_AGENT_NAME)[1].id
            /\ response'.calls = [NoPlatformCalls EXCEPT !["list_agents"] = 1]
            /\ agents' = agents /\ created' = created]_vars

C26_Witness ==
    /\ Len(agents) >= 1 /\ response.status = "OK"
    /\ response.chef_agent_id = agents[1].id
    /\ response.calls = [NoPlatformCalls EXCEPT !["list_agents"] = 1]

\* C30: when a request's lookup is answered, the id it works with is absent
\* exactly when the platform lists no agent named chef-agent (the request
\* then goes on to resolve tools), and otherwise it is the id of the first
\* agent listed, however many are listed.
C30_LookupReturnsFirstOrAbsent ==
    [][\A r \in Requests :
        LookupAnswered(r) =>
            LET listed == AgentsNamed(CHEF_AGENT_NAME) IN
            IF Len(listed) = 0
            THEN /\ req'[r].pc = "find_tools"
                 /\ req'[r].chef_agent_id = NoAgent
            ELSE /\ ~InFlight(r)'
                 /\ response'.chef_agent_id = listed[1].id
                 /\ response'.chef_agent_id # NoAgent]_vars

C30_Witness ==
    /\ Len(AgentsNamed(CHEF_AGENT_NAME)) = 2
    /\ response.status = "OK" /\ response.calls["create_agent"] = 0
    /\ response.chef_agent_id = agents[1].id
    /\ agents[2].id # response.chef_agent_id

\* C33 as claimed: a request that ended because the model is unavailable has
\* issued no add_mcp_tool call (and no create call).
C33_Original ==
    response.error = "ValueError" =>
        (response.calls["add_mcp_tool"] = 0 /\ response.calls["create_agent"] = 0)

\* C33 as amended: tool resolution comes before the model check.  While a
\* request resolves tools it has not listed the models yet; a request that
\* ends because the model is unavailable has issued one add_mcp_tool call per
\* requested name and the model list, but no create call, and leaves the
\* platform's agents as they were.
C33_ToolsResolvedBeforeModelCheck ==
    /\ [](\A r \in Requests :
            req[r].pc = "find_tools" => req[r].calls["list_models"] = 0)
    /\ [][\A r \in Requests :
            (Returns(r) /\ response'.error = "ValueError") =>
                /\ response'.calls["add_mcp_tool"] = Len(RequestedTools)
                /\ response'.calls["list_models"] = 1
                /\ response'.calls["create_agent"] = 0
                /\ agents' = agents /\ created' = created]_vars

C33_Witness ==
    /\ response.error = "ValueError" /\ response.status = "500"
    /\ response.calls["add_mcp_tool"] = Len(RequestedTools)
    /\ response.calls["create_agent"] = 0 /\ created = 0

(***************************************************************************)
(* Properties of the whole program (checked under SpecSerial).             *)
(***************************************************************************)
\* The calls counted in cs are those of one provisioner invocation without
\* a repeated call.
CalledOnce(cs) ==
    /\ cs["list_agents"] <= 1 /\ cs["list_models"] <= 1 /\ cs["create_agent"] <= 1
    /\ cs["add_mcp_tool"] <= Len(RequestedTools)

\* C23: within one bootstrap the validation, login and credential-creation
\* endpoints are each called at most once; within one /setup request the
\* agent lookup, the model list and the create call are each issued at most
\* once, and while tools are resolved the calls made so far are one for
\* each name already handled.
C23_NoCallIsRetried ==
    /\ calls["validate"] <= 1 /\ calls["login"] <= 1 /\ calls["create"] <= 1
    /\ CalledOnce(response.calls)
    /\ \A r \in Requests :
          /\ CalledOnce(req[r].calls)
          /\ req[r].pc = "find_tools" => req[r].calls["add_mcp_tool"] = req[r].idx - 1

C23_Witness ==
    /\ pc = "setup_done"
    /\ calls["validate"] = 1 /\ calls["login"] = 1 /\ calls["create"] = 1
    /\ response.status = "OK"
    /\ response.calls["list_agents"] = 1 /\ response.calls["list_models"] = 1
    /\ response.calls["create_agent"] = 1
    /\ response.calls["add_mcp_tool"] = Len(RequestedTools)

\* C24: while the server is serving, no step, and so no step of a /setup
\* request, changes the credential file, the credential held by the recipe
\* client, the tool-source registration or the count of requests sent to the
\* recipe backend, and the backend issues no token; and within one process
\* the recipe client's credential, once set, never changes.
C24_SetupRunsProvisionerOnly ==
    [][/\ (pc = "serving" /\ pc' = "serving") =>
             UNCHANGED <<file, clientKey, calls, mintCount, mcpServer,
                         mealie_api_key, api_token, auth_token>>
       /\ (clientKey # NoClient /\ pc' # "main") => clientKey' = clientKey]_vars

C24_Witness ==
    /\ pc = "serving" /\ response.status = "OK" /\ response.calls["create_agent"] = 1
    /\ Truthy(clientKey) /\ file = TokenFile(clientKey)
    /\ \E r \in Requests : req[r].pc = "find_tools"

(***************************************************************************)
(* Properties of add_recipe_note (checked under SpecNotes).                *)
(***************************************************************************)
Listed(seq) == {seq[i] : i \in 1..Len(seq)}

\* Both callers hold the answer of a successful call.
BothDone == \A c \in Callers : noteCall[c].pc = "done"

\* C35 as stated: after two add_recipe_note calls on the recipe, however
\* their GET and PATCH steps interleave, both new notes are in its notes.
C35_Original ==
    BothDone => \A c \in Callers : noteCall[c].new_note \in Listed(notes)

\* C35: a successful PATCH of add_recipe_note leaves the recipe with the
\* notes the call's GET returned followed by the new note; when the notes
\* were not written between the two requests those are the notes the recipe
\* had before the PATCH followed by the new note, and every note it had
\* is kept.
C35_AppendsToWhatItRead ==
    [][\A c \in Callers :
          (noteCall[c].pc = "got" /\ noteCall'[c].pc = "done") =>
              /\ notes' = Append(noteCall[c].notes, noteCall[c].new_note)
              /\ noteCall[c].notes = notes =>
                    /\ notes' = Append(notes, noteCall[c].new_note)
                    /\ Listed(notes) \subseteq Listed(notes')]_vars

\* A call appended its note to a recipe that already had one.
C35_Witness ==
    \E c \in Callers :
        /\ noteCall[c].pc = "done"
        /\ Len(notes) = 2
        /\ notes[2] = noteCall[c].new_note
        /\ notes[1] # notes[2]

(***************************************************************************)
(* Properties of update_recipe_tags (checked under SpecTags).              *)
(***************************************************************************)
\* The backend has a tag of that name.
TagNamed(name) == \E i \in 1..Len(organizerTags) : organizerTags[i].name = name

\* C36: get_or_create_tag issues a create-tag request only when no tag of
\* the backend has the requested name.
C36_CreatesOnlyMissingTags ==
    [][tagRun'.creates = tagRun.creates + 1 =>
          ~TagNamed(strip(Head(tagRun.tags)))]_vars

(***************************************************************************)
(* Properties of update_recipe_categories (checked under SpecCategories).  *)
(***************************************************************************)
\* The running call applies the csv of the latest completed call again.
AppliesAgain == lastApplied.categories_csv = categoryRun.categories_csv

\* C37: a call that applies the categories_csv of the call completed before
\* it issues no create-category request and leaves the recipe with the
\* category list that call left.
C37_SecondApplicationChangesNothing ==
    [][(categoryRun.pc = "running" /\ AppliesAgain) =>
          /\ categoryRun'.creates = categoryRun.creates
          /\ recipeCategory' = lastApplied.recipe_categories]_vars

====
